---------------------------- MODULE Spec2Model ----------------------------
(***************************************************************************)
(* A model of three programs of the repository:                            *)
(*   - dev/build-docker-image-matrix.py: the Docker build matrix           *)
(*     (SpecMatrix);                                                       *)
(*   - src/py/flwr/server/superlink/fleet/vce/vce_api.py: the registration *)
(*     of virtual nodes by start_vce (SpecVce, FairVce);                   *)
(*   - examples/.../server_app.py: the coordinator's round loop (SpecMain) *)
(*     and its aggregation function (SpecAgg).                             *)
(***************************************************************************)
EXTENDS Integers, Sequences, FiniteSets, TLC

VARIABLES
    \* ---- build-docker-image-matrix.py
    m_pc,                \* position in the __main__ block
    flwr_version,        \* args.flwr_version
    ubuntu_base_images, alpine_base_images, cuda_base_images,
    base_images,         \* ubuntu + alpine + cuda
    binary_images,       \* the list built by the five generate_binary_images calls
    bin_k,               \* which generate_binary_images call is running (1..5)
    bin_j,               \* the index of the base image its comprehension is at
    \* ---- vce_api.py
    v_pc,                \* position in start_vce
    num_supernodes,      \* start_vce's argument
    reg_i,               \* _register_nodes: the loop variable i
    created,             \* the node ids create_node has returned, in call order
    nodes_mapping,       \* NodeToPartitionMapping (a dict)
    node_states,         \* Dict[int, NodeState] (a dict of object identities)
    states_k,            \* the position of `for node_id in nodes_mapping`
    obj_count,           \* the number of NodeState objects constructed
    \* ---- the task store shared by the coordinator and the participants
    store,               \* the tasks, in creation order
    \* ---- server_app.py: main
    pc,                  \* position in main
    num_rounds,          \* context.run_config["num-server-rounds"]
    server_round,        \* the loop variable of `for server_round in range(num_rounds)`
    node_ids,            \* driver.get_node_ids() of the round
    messages,            \* construct_messages(...) of the round
    replies,             \* driver.send_and_receive(messages) of the round
    global_model,        \* the state_dict of global_model
    created_rounds,      \* history: the rounds whose messages were constructed
    aggregated_rounds,   \* history: the rounds whose replies were aggregated
    \* ---- server_app.py: aggregate_parameters_from_messages
    a_pc,                \* position in the function
    agg_messages,        \* its argument `messages`
    agg_i,               \* the position of the running loop
    state_dict_list,     \* the list of state_dicts (the dict objects themselves)
    origin,              \* history: the message each state_dict came from
    new_global_dict,     \* the object new_global_dict names: an index of
                         \* state_dict_list (0: not bound yet)
    contrib,             \* history: how often each message was added to the sum
    agg_result           \* the returned OrderedDict

matrixVars == <<m_pc, flwr_version, ubuntu_base_images, alpine_base_images,
                cuda_base_images, base_images, binary_images, bin_k, bin_j>>

vceVars == <<v_pc, num_supernodes, reg_i, created, nodes_mapping, node_states,
             states_k, obj_count>>

mainVars == <<pc, num_rounds, server_round, node_ids, messages, replies,
              global_model, created_rounds, aggregated_rounds>>

aggVars == <<a_pc, agg_messages, agg_i, state_dict_list, origin, new_global_dict,
             contrib, agg_result>>

vars == <<matrixVars, vceVars, store, mainVars, aggVars>>

\* What the steps of one program leave alone.
notMatrix == <<vceVars, store, mainVars, aggVars>>
notVce == <<matrixVars, mainVars, aggVars>>
notAgg == <<matrixVars, vceVars, store, mainVars>>
notMain == <<matrixVars, vceVars>>

(***************************************************************************)
(* Helpers on sequences.                                                   *)
(***************************************************************************)
Range(s) == {s[k] : k \in 1..Len(s)}

RECURSIVE Filter(_, _)
Filter(s, keep) ==
    IF s = <<>> THEN <<>>
    ELSE (IF keep[Head(s)] THEN <<Head(s)>> ELSE <<>>) \o Filter(Tail(s), keep)

(***************************************************************************)
(*                    dev/build-docker-image-matrix.py                     *)
(***************************************************************************)
ALPINE == "alpine"
UBUNTU == "ubuntu"

LATEST_SUPPORTED_PYTHON_VERSION == "3.11"
SUPPORTED_PYTHON_VERSIONS == <<"3.9", "3.10", LATEST_SUPPORTED_PYTHON_VERSION>>

DOCKERFILE_ROOT == "src/docker"

CpuVariant == [class |-> "CpuVariant"]
CudaVariant(version) == [class |-> "CudaVariant", version |-> version]

LATEST_SUPPORTED_CUDA_VERSIONS == "12.4"
CUDA_VERSIONS == <<"11.2", "11.8", "12.1", "12.3", LATEST_SUPPORTED_CUDA_VERSIONS>>

\* Variant(distro, file_dir_fn, tag_fn, extra): the two lambdas of a variant are
\* named by `fns` ("base": the ubuntu and alpine lambdas, "cuda": the cuda ones).
Distro(name, version) == [name |-> name, version |-> version]
Variant(distro, fns, extra) == [distro |-> distro, fns |-> fns, extra |-> extra]

UBUNTU_VARIANTS == <<Variant(Distro(UBUNTU, "24.04"), "base", CpuVariant)>>
ALPINE_VARIANTS == <<Variant(Distro(ALPINE, "3.19"), "base", CpuVariant)>>
CUDA_VARIANTS ==
    [k \in 1..Len(CUDA_VERSIONS) |->
        Variant(Distro(UBUNTU, "24.04"), "cuda", CudaVariant(CUDA_VERSIONS[k]))]

\* Variant.file_dir: self.file_dir_fn(self.distro, self.extra)
file_dir(variant) ==
    IF variant.fns = "cuda"
    THEN DOCKERFILE_ROOT \o "/base/" \o variant.distro.name \o "-cuda"
    ELSE DOCKERFILE_ROOT \o "/base/" \o variant.distro.name

\* Variant.tag: self.tag_fn(self.distro, flwr_version, python_version, self.extra)
tag(variant, fv, python_version) ==
    IF variant.fns = "cuda"
    THEN fv \o "-py" \o python_version \o "-cu" \o variant.extra.version \o "-"
            \o variant.distro.name \o variant.distro.version
    ELSE fv \o "-py" \o python_version \o "-"
            \o variant.distro.name \o variant.distro.version

new_base_image(fv, python_version, variant) ==
    [variant |-> variant,
     python_version |-> python_version,
     namespace_repository |-> "flwr/base",
     file_dir |-> file_dir(variant),
     tag |-> tag(variant, fv, python_version),
     flwr_version |-> fv]

\* [new_base_image(...) for variant in variants for python_version in python_versions]
generate_base_images(fv, python_versions, variants) ==
    [k \in 1..(Len(variants) * Len(python_versions)) |->
        new_base_image(fv,
                       python_versions[((k - 1) % Len(python_versions)) + 1],
                       variants[((k - 1) \div Len(python_versions)) + 1])]

IsCpu(image) == image.variant.extra.class = "CpuVariant"

tag_latest_alpine_with_flwr_version(image) ==
    IF /\ image.variant.distro.name = ALPINE
       /\ image.python_version = LATEST_SUPPORTED_PYTHON_VERSION
    THEN <<image.tag, image.flwr_version>>
    ELSE <<image.tag>>

\* The same without the isinstance(image.variant.extra, CpuVariant) conjunct.
tag_latest_ubuntu_any_variant(image) ==
    IF /\ image.variant.distro.name = UBUNTU
       /\ image.python_version = LATEST_SUPPORTED_PYTHON_VERSION
    THEN <<image.tag, image.flwr_version>>
    ELSE <<image.tag>>

tag_latest_ubuntu_with_flwr_version(image) ==
    IF /\ image.variant.distro.name = UBUNTU
       /\ image.python_version = LATEST_SUPPORTED_PYTHON_VERSION
       /\ IsCpu(image)
    THEN <<image.tag, image.flwr_version>>
    ELSE <<image.tag>>

\* "\n".join(tags): the joined string as its sequence of pieces, every tag one
\* piece and "\n" between two tags (no tag holds a line break).
RECURSIVE Join(_, _)
Join(sep, strs) ==
    IF strs = <<>> THEN <<>>
    ELSE IF Len(strs) = 1 THEN <<strs[1]>>
    ELSE <<strs[1], sep>> \o Join(sep, Tail(strs))

\* The truth value Python gives a tuple: a tuple is true iff it is not empty.
TupleTruthy(t) == Len(t) > 0

superlink_filter(image) ==
    /\ image.python_version = LATEST_SUPPORTED_PYTHON_VERSION
    /\ IsCpu(image)

\* lambda image: (A and B,) or (C and D): the first operand is a one-element
\* tuple (the comma before its closing parenthesis), so `or` tests the tuple.
supernode_filter(image) ==
    \/ TupleTruthy(<<(/\ image.variant.distro.name = UBUNTU
                      /\ IsCpu(image))>>)
    \/ (/\ image.variant.distro.name = ALPINE
        /\ image.python_version = LATEST_SUPPORTED_PYTHON_VERSION)

serverapp_filter(image) == image.variant.distro.name = UBUNTU

superexec_filter(image) ==
    /\ image.variant.distro.name = UBUNTU
    /\ IsCpu(image)

clientapp_filter(image) == image.variant.distro.name = UBUNTU

\* The five generate_binary_images calls of __main__, in order.
BinaryNames == <<"superlink", "supernode", "serverapp", "superexec", "clientapp">>

binary_filter(name, image) ==
    CASE name = "superlink" -> superlink_filter(image)
      [] name = "supernode" -> supernode_filter(image)
      [] name = "serverapp" -> serverapp_filter(image)
      [] name = "superexec" -> superexec_filter(image)
      [] name = "clientapp" -> clientapp_filter(image)

binary_tags_fn(name, image) ==
    IF name \in {"superlink", "supernode"}
    THEN tag_latest_alpine_with_flwr_version(image)
    ELSE tag_latest_ubuntu_with_flwr_version(image)

new_binary_image(name, base_image) ==
    [namespace_repository |-> "flwr/" \o name,
     file_dir |-> DOCKERFILE_ROOT \o "/" \o name,
     base_image |-> base_image.tag,
     tags |-> Join("\n", <<>> \o binary_tags_fn(name, base_image))]

FlwrVersions == {"1.13.0", "1.14.0"}

InitMatrixVars ==
    /\ m_pc = "args"
    /\ flwr_version = ""
    /\ ubuntu_base_images = <<>>
    /\ alpine_base_images = <<>>
    /\ cuda_base_images = <<>>
    /\ base_images = <<>>
    /\ binary_images = <<>>
    /\ bin_k = 1
    /\ bin_j = 1

\* args = arg_parser.parse_args(); flwr_version = args.flwr_version
ParseArgs ==
    /\ m_pc = "args"
    /\ \E v \in FlwrVersions : flwr_version' = v
    /\ m_pc' = "ubuntu"
    /\ UNCHANGED <<ubuntu_base_images, alpine_base_images, cuda_base_images,
                   base_images, binary_images, bin_k, bin_j>>
    /\ UNCHANGED notMatrix

GenerateUbuntuBase ==
    /\ m_pc = "ubuntu"
    /\ ubuntu_base_images' =
          generate_base_images(flwr_version, SUPPORTED_PYTHON_VERSIONS, UBUNTU_VARIANTS)
    /\ m_pc' = "alpine"
    /\ UNCHANGED <<flwr_version, alpine_base_images, cuda_base_images,
                   base_images, binary_images, bin_k, bin_j>>
    /\ UNCHANGED notMatrix

GenerateAlpineBase ==
    /\ m_pc = "alpine"
    /\ alpine_base_images' =
          generate_base_images(flwr_version, <<LATEST_SUPPORTED_PYTHON_VERSION>>,
                               ALPINE_VARIANTS)
    /\ m_pc' = "cuda"
    /\ UNCHANGED <<flwr_version, ubuntu_base_images, cuda_base_images,
                   base_images, binary_images, bin_k, bin_j>>
    /\ UNCHANGED notMatrix

GenerateCudaBase ==
    /\ m_pc = "cuda"
    /\ cuda_base_images' =
          generate_base_images(flwr_version, SUPPORTED_PYTHON_VERSIONS, CUDA_VARIANTS)
    /\ m_pc' = "concat"
    /\ UNCHANGED <<flwr_version, ubuntu_base_images, alpine_base_images,
                   base_images, binary_images, bin_k, bin_j>>
    /\ UNCHANGED notMatrix

ConcatBase ==
    /\ m_pc = "concat"
    /\ base_images' = ubuntu_base_images \o alpine_base_images \o cuda_base_images
    /\ m_pc' = "binary"
    /\ UNCHANGED <<flwr_version, ubuntu_base_images, alpine_base_images,
                   cuda_base_images, binary_images, bin_k, bin_j>>
    /\ UNCHANGED notMatrix

\* One iteration of the comprehension of generate_binary_images:
\* new_binary_image(name, image, tags_fn) for image in base_images if filter(image)
GenerateBinaryStep ==
    /\ m_pc = "binary"
    /\ bin_j <= Len(base_images)
    /\ binary_images' =
          IF binary_filter(BinaryNames[bin_k], base_images[bin_j])
          THEN Append(binary_images,
                      new_binary_image(BinaryNames[bin_k], base_images[bin_j]))
          ELSE binary_images
    /\ bin_j' = bin_j + 1
    /\ UNCHANGED <<m_pc, flwr_version, ubuntu_base_images, alpine_base_images,
                   cuda_base_images, base_images, bin_k>>
    /\ UNCHANGED notMatrix

\* The comprehension of one call is exhausted: the next call, or the print.
GenerateBinaryNext ==
    /\ m_pc = "binary"
    /\ bin_j > Len(base_images)
    /\ IF bin_k < Len(BinaryNames)
       THEN /\ bin_k' = bin_k + 1
            /\ bin_j' = 1
            /\ m_pc' = m_pc
       ELSE /\ m_pc' = "done"
            /\ UNCHANGED <<bin_k, bin_j>>
    /\ UNCHANGED <<flwr_version, ubuntu_base_images, alpine_base_images,
                   cuda_base_images, base_images, binary_images>>
    /\ UNCHANGED notMatrix

NextMatrix ==
    \/ ParseArgs
    \/ GenerateUbuntuBase
    \/ GenerateAlpineBase
    \/ GenerateCudaBase
    \/ ConcatBase
    \/ GenerateBinaryStep
    \/ GenerateBinaryNext

(***************************************************************************)
(* Properties of the build matrix.                                         *)
(***************************************************************************)
\* The pieces of a joined string between the separators: the tags of an image.
SplitTags(joined) == {joined[k] : k \in {n \in 1..Len(joined) : n % 2 = 1}}

BinaryOf(name) ==
    {k \in 1..Len(binary_images) :
        binary_images[k].namespace_repository = "flwr/" \o name}

\* The base image a binary image was generated from (base tags are unique).
BaseOf(b) == CHOOSE image \in Range(base_images) : image.tag = b.base_image

\* C9: a supernode image is generated only from an Ubuntu CPU base image or from
\* an Alpine base image of the latest supported Python version.
C9_SupernodeOnlyCpuUbuntuOrLatestAlpine ==
    \A k \in BinaryOf("supernode") :
        LET image == BaseOf(binary_images[k]) IN
        \/ (image.variant.distro.name = UBUNTU /\ IsCpu(image))
        \/ (/\ image.variant.distro.name = ALPINE
            /\ image.python_version = LATEST_SUPPORTED_PYTHON_VERSION)

\* C10: every generated binary image carries its base image's tag; no two images
\* of one repository carry the bare flwr_version tag; and once the matrix is
\* complete exactly one image of each of the five repositories carries it.
C10_OneVersionTagPerRepository ==
    /\ \A k \in 1..Len(binary_images) :
          binary_images[k].base_image \in SplitTags(binary_images[k].tags)
    /\ \A n \in Range(BinaryNames) :
          LET tagged == {k \in BinaryOf(n) :
                            flwr_version \in SplitTags(binary_images[k].tags)}
          IN /\ Cardinality(tagged) <= 1
             /\ m_pc = "done" => Cardinality(tagged) = 1

\* The matrix is complete and a CUDA image of the latest Python version is among
\* the serverapp images, next to the one image that carries the version tag.
C10_Witness ==
    /\ m_pc = "done"
    /\ \E k \in BinaryOf("serverapp") :
          /\ ~IsCpu(BaseOf(binary_images[k]))
          /\ BaseOf(binary_images[k]).python_version = LATEST_SUPPORTED_PYTHON_VERSION
    /\ \E k \in BinaryOf("serverapp") :
          flwr_version \in SplitTags(binary_images[k].tags)

(***************************************************************************)
(*                 Python dicts, as the code uses them                     *)
(***************************************************************************)
\* A dict is the sequence of its <<key, value>> items in insertion order.
DictKeys(d) == [k \in 1..Len(d) |-> d[k][1]]
DictKeySet(d) == {d[k][1] : k \in 1..Len(d)}
DictHas(d, key) == key \in DictKeySet(d)
DictGet(d, key) == d[CHOOSE k \in 1..Len(d) : d[k][1] = key][2]
\* d[key] = value: a present key keeps its place and takes the value.
DictSet(d, key, value) ==
    IF DictHas(d, key)
    THEN [k \in 1..Len(d) |-> IF d[k][1] = key THEN <<key, value>> ELSE d[k]]
    ELSE Append(d, <<key, value>>)

(***************************************************************************)
(*           src/py/flwr/server/superlink/fleet/vce/vce_api.py             *)
(***************************************************************************)
MaxNodes == 2      \* start_vce is called with num_supernodes in 0..MaxNodes
MaxNodeId == 3     \* create_node returns an id in 1..MaxNodeId
MaxTasks == 2      \* at most this many tasks are created in the store

NodeIdPool == 1..MaxNodeId

\* nodes_mapping[node_id] = i + 1: an off-by-one partition index.
register_assign_next(mapping, node_id, i) == DictSet(mapping, node_id, i + 1)

\* nodes_mapping[node_id] = i
register_assign(mapping, node_id, i) == DictSet(mapping, node_id, i)

\* One NodeState object shared by all nodes.
NodeStateShared(count) == 1

\* NodeState(): the identity of a newly constructed object, given how many were
\* constructed before.
NodeState(count) == count + 1

InitVceVars ==
    /\ v_pc = "register"
    /\ num_supernodes \in 0..MaxNodes
    /\ reg_i = 0
    /\ created = <<>>
    /\ nodes_mapping = <<>>
    /\ node_states = <<>>
    /\ states_k = 1
    /\ obj_count = 0

\* _register_nodes, one iteration of `for i in range(num_nodes)`: create_node
\* is the state's; it returns some node id.
RegisterNode ==
    /\ v_pc = "register"
    /\ reg_i < num_supernodes
    /\ \E node_id \in NodeIdPool :
          /\ created' = Append(created, node_id)
          /\ nodes_mapping' = register_assign(nodes_mapping, node_id, reg_i)
    /\ reg_i' = reg_i + 1
    /\ UNCHANGED <<v_pc, num_supernodes, node_states, states_k, obj_count, store>>
    /\ UNCHANGED notVce

\* _register_nodes returns nodes_mapping; start_vce starts on node_states.
RegisterReturn ==
    /\ v_pc = "register"
    /\ reg_i >= num_supernodes
    /\ v_pc' = "node_states"
    /\ node_states' = <<>>
    /\ states_k' = 1
    /\ UNCHANGED <<num_supernodes, reg_i, created, nodes_mapping, obj_count, store>>
    /\ UNCHANGED notVce

\* One iteration of `for node_id in nodes_mapping: node_states[node_id] = NodeState()`
ConstructNodeState ==
    /\ v_pc = "node_states"
    /\ states_k <= Len(nodes_mapping)
    /\ node_states' = DictSet(node_states, DictKeys(nodes_mapping)[states_k],
                              NodeState(obj_count))
    /\ obj_count' = obj_count + 1
    /\ states_k' = states_k + 1
    /\ UNCHANGED <<v_pc, num_supernodes, reg_i, created, nodes_mapping, store>>
    /\ UNCHANGED notVce

NodeStatesDone ==
    /\ v_pc = "node_states"
    /\ states_k > Len(nodes_mapping)
    /\ v_pc' = "config"
    /\ UNCHANGED <<num_supernodes, reg_i, created, nodes_mapping, node_states,
                   states_k, obj_count, store>>
    /\ UNCHANGED notVce

\* _ = json.loads(backend_config_json_str): it returns, or raises on a string
\* that is not JSON; then the log line and the definition of _load, and
\* start_vce returns (its last line is the comment "# start backend").
LoadBackendConfig ==
    /\ v_pc = "config"
    /\ \E valid_json \in BOOLEAN :
          v_pc' = IF valid_json THEN "done" ELSE "raised"
    /\ UNCHANGED <<num_supernodes, reg_i, created, nodes_mapping, node_states,
                   states_k, obj_count, store>>
    /\ UNCHANGED notVce

\* The coordinator creates a task for some node: it is Pending in the store.
CreateTask ==
    /\ Len(store) < MaxTasks
    /\ \E dst \in NodeIdPool :
          store' = Append(store, [dst |-> dst, group_id |-> <<"0">>, round |-> 0,
                                  status |-> "Pending", reply |-> <<>>])
    /\ UNCHANGED vceVars
    /\ UNCHANGED notVce

NextVce ==
    \/ RegisterNode
    \/ RegisterReturn
    \/ ConstructNodeState
    \/ NodeStatesDone
    \/ LoadBackendConfig
    \/ CreateTask

(***************************************************************************)
(* Properties of start_vce.                                                *)
(***************************************************************************)
NoDuplicates(s) == \A a, b \in 1..Len(s) : s[a] = s[b] => a = b

\* C1: when _register_nodes has returned, create_node was called num_nodes
\* times, and if it never returned an id twice the mapping has num_nodes
\* entries, the i-th id returned maps to i (from 0), and the mapping is a
\* bijection between the registered ids and 0..num_nodes-1.
C1_RegisterNodesBijection ==
    v_pc # "register" =>
        /\ Len(created) = num_supernodes
        /\ NoDuplicates(created) =>
              /\ Len(nodes_mapping) = num_supernodes
              /\ DictKeySet(nodes_mapping) = Range(created)
              /\ \A i \in 1..num_supernodes :
                    DictGet(nodes_mapping, created[i]) = i - 1
              /\ {DictGet(nodes_mapping, n) : n \in DictKeySet(nodes_mapping)}
                    = 0..(num_supernodes - 1)
              /\ \A a, b \in DictKeySet(nodes_mapping) :
                    DictGet(nodes_mapping, a) = DictGet(nodes_mapping, b) => a = b

\* _register_nodes returned a mapping of two nodes whose ids were not handed
\* out in increasing order.
C1_Witness ==
    /\ v_pc = "node_states"
    /\ num_supernodes >= 2
    /\ NoDuplicates(created)
    /\ created[1] > created[2]

\* C3: once start_vce has built node_states, its keys are the keys of the
\* Partition Mapping, one NodeState object was constructed per key, and no two
\* distinct node ids share an object.
C3_OneStatePerNode ==
    v_pc \in {"config", "done", "raised"} =>
        /\ DictKeySet(node_states) = DictKeySet(nodes_mapping)
        /\ obj_count = Cardinality(DictKeySet(nodes_mapping))
        /\ \A a, b \in DictKeySet(node_states) :
              DictGet(node_states, a) = DictGet(node_states, b) => a = b

\* start_vce has returned with the states of two nodes.
C3_Witness ==
    /\ v_pc = "done"
    /\ Cardinality(DictKeySet(node_states)) >= 2

\* C2: once start_vce has configured the virtual nodes, every task that is
\* Pending and addressed to a registered virtual node is eventually answered
\* (Replied or Errored) through submit_reply.
C2_PendingTaskEventuallyAnswered ==
    \A t \in 1..MaxTasks :
        [](( /\ v_pc = "done"
             /\ t <= Len(store)
             /\ store[t].status = "Pending"
             /\ DictHas(nodes_mapping, store[t].dst) )
            => <>(t <= Len(store) /\ store[t].status \in {"Replied", "Errored"}))

(***************************************************************************)
(*   examples/advanced-pytorch/pytorch-example-low-level/.../server_app.py *)
(***************************************************************************)
MaxRounds == 2     \* num-server-rounds is in 0..MaxRounds
MaxReplies == 2    \* aggregate_parameters_from_messages alone: at most this many messages

\* The parameter keys of a state_dict, and the values a reply holds for a key.
Keys == {"w", "b"}
Values == {1, 2}

\* A number is a fraction <<numerator, denominator>>; the denominator is positive.
Rat(v) == <<v, 1>>
RatEq(a, b) == a[1] * b[2] = b[1] * a[2]

\* np.add(a, b)
np_add(a, b) == IF a[2] = b[2] THEN <<a[1] + b[1], a[2]>>
                ELSE <<a[1] * b[2] + b[1] * a[2], a[2] * b[2]>>

\* a / n
true_divide(a, n) == <<a[1], a[2] * n>>

\* The replies a ClientApp can send: an error, or an updated_model_dict.
ErrorReply == [has_error |-> TRUE, content |-> <<>>]
OkReply(state_dict) == [has_error |-> FALSE, content |-> state_dict]
StateDicts == {[key \in Keys |-> Rat(sd[key])] : sd \in [Keys -> Values]}
AllReplies == {ErrorReply} \cup {OkReply(sd) : sd \in StateDicts}
\* In the round loop every ClientApp that answers without error sends this one.
RoundReplies == {ErrorReply} \cup {OkReply([key \in Keys |-> Rat(v)]) : v \in Values}

\* str(n) of an int n >= 0: its decimal digits.
Digits == <<"0", "1", "2", "3", "4", "5", "6", "7", "8", "9">>
RECURSIVE Str(_)
Str(n) == IF n < 10 THEN <<Digits[n + 1]>>
          ELSE Str(n \div 10) \o <<Digits[(n % 10) + 1]>>

\* The node ids driver.get_node_ids() can return: distinct ids, in any order.
CoordinatorNodeIds == 1..MaxNodes
Snapshots ==
    {snap \in UNION {[1..n -> CoordinatorNodeIds] : n \in 0..MaxNodes} :
        \A a, b \in 1..Len(snap) : snap[a] = snap[b] => a = b}

\* lr = 0.1 if server_round < 10 else 0.1 / 2
learning_rate(round) == IF round < 10 THEN <<1, 10>> ELSE true_divide(<<1, 10>>, 2)

\* driver.create_message(content, message_type, dst_node_id, group_id)
create_message(content, message_type, dst_node_id, group_id) ==
    [content |-> content, message_type |-> message_type,
     dst_node_id |-> dst_node_id, group_id |-> group_id]

\* construct_messages without a message for the last node id.
construct_messages_but_last(model, ids, msg_type, round) ==
    LET recordset == [config |-> [lr |-> learning_rate(round)],
                      global_model_record |-> model]
    IN [k \in 1..(Len(ids) - 1) |->
           create_message(recordset, msg_type, ids[k], Str(round))]

construct_messages(model, ids, msg_type, round) ==
    LET recordset == [config |-> [lr |-> learning_rate(round)],
                      global_model_record |-> model]
    IN [k \in 1..Len(ids) |->
           create_message(recordset, msg_type, ids[k], Str(round))]

\* A loop that steps by two.
skip_round(round) == round + 2

\* range(num_rounds): the value after `round` (-1 before the first).
next_round(round) == round + 1

\* msg.has_error()
has_error(msg) == msg.has_error

\* for key, value in d.items(): new_global_dict[key] = np.add(new_global_dict[key], value)
accumulate(new, d) == [key \in DOMAIN new |-> np_add(new[key], d[key])]

\* A division by the number of messages plus one.
average_off_by_one(new, n) == [key \in DOMAIN new |-> true_divide(new[key], n + 1)]

\* for key in new_global_dict: new_global_dict[key] = new_global_dict[key] / n
average(new, n) == [key \in DOMAIN new |-> true_divide(new[key], n)]

InitAggVars(msgs) ==
    /\ a_pc = "collect"
    /\ agg_messages = msgs
    /\ agg_i = 1
    /\ state_dict_list = <<>>
    /\ origin = <<>>
    /\ new_global_dict = 0
    /\ contrib = [k \in 1..Len(msgs) |-> 0]
    /\ agg_result = <<>>

IdleAgg ==
    /\ a_pc = "idle"
    /\ agg_messages = <<>>
    /\ agg_i = 1
    /\ state_dict_list = <<>>
    /\ origin = <<>>
    /\ new_global_dict = 0
    /\ contrib = <<>>
    /\ agg_result = <<>>

\* aggregate_parameters_from_messages(msgs) is entered.
CallAggregate(msgs) ==
    /\ a_pc' = "collect"
    /\ agg_messages' = msgs
    /\ agg_i' = 1
    /\ state_dict_list' = <<>>
    /\ origin' = <<>>
    /\ new_global_dict' = 0
    /\ contrib' = [k \in 1..Len(msgs) |-> 0]
    /\ agg_result' = <<>>

\* Its frame is left.
LeaveAggregate ==
    /\ a_pc' = "idle"
    /\ agg_messages' = <<>>
    /\ agg_i' = 1
    /\ state_dict_list' = <<>>
    /\ origin' = <<>>
    /\ new_global_dict' = 0
    /\ contrib' = <<>>
    /\ agg_result' = <<>>

\* One iteration of `for msg in messages`: an errored message is skipped, the
\* state_dict of another is appended.
AggCollect ==
    /\ a_pc = "collect"
    /\ agg_i <= Len(agg_messages)
    /\ IF has_error(agg_messages[agg_i])
       THEN UNCHANGED <<state_dict_list, origin>>
       ELSE /\ state_dict_list' = Append(state_dict_list, agg_messages[agg_i].content)
            /\ origin' = Append(origin, agg_i)
    /\ agg_i' = agg_i + 1
    /\ UNCHANGED <<a_pc, agg_messages, new_global_dict, contrib, agg_result>>
    /\ UNCHANGED notAgg

\* new_global_dict = state_dict_list[0]: the name is bound to the first dict of
\* the list (no copy); an empty list raises IndexError.
AggInit ==
    /\ a_pc = "collect"
    /\ agg_i > Len(agg_messages)
    /\ IF state_dict_list = <<>>
       THEN /\ a_pc' = "raised"
            /\ UNCHANGED <<new_global_dict, contrib, agg_i>>
       ELSE /\ a_pc' = "sum"
            /\ new_global_dict' = 1
            /\ contrib' = [contrib EXCEPT ![origin[1]] = 1]
            /\ agg_i' = 1
    /\ UNCHANGED <<agg_messages, state_dict_list, origin, agg_result>>
    /\ UNCHANGED notAgg

\* One iteration of `for d in state_dict_list`: d is added to new_global_dict,
\* which is the first dict of the list.
AggAdd ==
    /\ a_pc = "sum"
    /\ agg_i <= Len(state_dict_list)
    /\ state_dict_list' =
          [state_dict_list EXCEPT
              ![new_global_dict] = accumulate(@, state_dict_list[agg_i])]
    /\ contrib' = [contrib EXCEPT ![origin[agg_i]] = @ + 1]
    /\ agg_i' = agg_i + 1
    /\ UNCHANGED <<a_pc, agg_messages, origin, new_global_dict, agg_result>>
    /\ UNCHANGED notAgg

\* The average, and the return of OrderedDict(new_global_dict).
AggAverage ==
    /\ a_pc = "sum"
    /\ agg_i > Len(state_dict_list)
    /\ state_dict_list' =
          [state_dict_list EXCEPT
              ![new_global_dict] = average(@, Len(state_dict_list))]
    /\ agg_result' = state_dict_list'[new_global_dict]
    /\ a_pc' = "return"
    /\ UNCHANGED <<agg_messages, agg_i, origin, new_global_dict, contrib>>
    /\ UNCHANGED notAgg

InitMainVars ==
    /\ pc = "round"
    /\ num_rounds \in 0..MaxRounds
    /\ server_round = -1
    /\ node_ids = <<>>
    /\ messages = <<>>
    /\ replies = <<>>
    /\ global_model = [key \in Keys |-> Rat(0)]
    /\ created_rounds = <<>>
    /\ aggregated_rounds = <<>>

IdleMain ==
    /\ pc = "idle"
    /\ num_rounds = 0
    /\ server_round = -1
    /\ node_ids = <<>>
    /\ messages = <<>>
    /\ replies = <<>>
    /\ global_model = <<>>
    /\ created_rounds = <<>>
    /\ aggregated_rounds = <<>>

\* The next server_round of the for loop, the log line, and
\* node_ids = driver.get_node_ids()
StartRound ==
    /\ pc = "round"
    /\ next_round(server_round) < num_rounds
    /\ server_round' = next_round(server_round)
    /\ \E snap \in Snapshots : node_ids' = snap
    /\ pc' = "construct"
    /\ UNCHANGED <<num_rounds, messages, replies, global_model, created_rounds,
                   aggregated_rounds, store>>
    /\ UNCHANGED <<aggVars, notMain>>

\* range(num_rounds) is exhausted: main returns.
FinishRounds ==
    /\ pc = "round"
    /\ next_round(server_round) >= num_rounds
    /\ pc' = "done"
    /\ UNCHANGED <<num_rounds, server_round, node_ids, messages, replies,
                   global_model, created_rounds, aggregated_rounds, store>>
    /\ UNCHANGED <<aggVars, notMain>>

\* messages = construct_messages(global_model, driver, node_ids, TRAIN, server_round)
ConstructMessages ==
    /\ pc = "construct"
    /\ messages' = construct_messages(global_model, node_ids, "train", server_round)
    /\ created_rounds' = Append(created_rounds, server_round)
    /\ pc' = "send"
    /\ UNCHANGED <<num_rounds, server_round, node_ids, replies, global_model,
                   aggregated_rounds, store>>
    /\ UNCHANGED <<aggVars, notMain>>

\* driver.send_and_receive(messages) is called: the tasks of the messages are
\* created in the store as one group, all Pending.
SendAndReceiveCall ==
    /\ pc = "send"
    /\ store' = store \o [k \in 1..Len(messages) |->
                            [dst |-> messages[k].dst_node_id,
                             group_id |-> messages[k].group_id,
                             round |-> server_round,
                             status |-> "Pending",
                             reply |-> <<>>]]
    /\ pc' = "wait"
    /\ UNCHANGED <<num_rounds, server_round, node_ids, messages, replies,
                   global_model, created_rounds, aggregated_rounds>>
    /\ UNCHANGED <<aggVars, notMain>>

\* A participant answers a task addressed to it: with a result or with an error.
NodeReply ==
    /\ \E t \in 1..Len(store) :
          /\ store[t].status = "Pending"
          /\ \E r \in RoundReplies :
                store' = [store EXCEPT
                             ![t].status = IF r.has_error THEN "Errored" ELSE "Replied",
                             ![t].reply = r]
    /\ pc = "wait"
    /\ UNCHANGED <<mainVars, aggVars, notMain>>

\* send_and_receive returns (every task is answered, or the timeout fired): the
\* replies of the answered tasks, in the order of the messages; the tasks leave
\* the store, the unanswered ones as timed out.  Then the log line, and
\* aggregate_parameters_from_messages(replies) is called.
SendAndReceiveReturn ==
    /\ pc = "wait"
    /\ LET answered == [t \in 1..Len(store) |-> store[t].status # "Pending"]
           kept == Filter([t \in 1..Len(store) |-> t],
                          [t \in 1..Len(store) |-> answered[t]])
           got == [k \in 1..Len(kept) |-> store[kept[k]].reply]
       IN /\ replies' = got
          /\ CallAggregate(got)
    /\ store' = <<>>
    /\ pc' = "aggregate"
    /\ UNCHANGED <<num_rounds, server_round, node_ids, messages, global_model,
                   created_rounds, aggregated_rounds>>
    /\ UNCHANGED notMain

\* The aggregation has returned: global_model.load_state_dict(...), the central
\* evaluation and its log line; then the next iteration.
AggregateReturn ==
    /\ pc = "aggregate"
    /\ a_pc = "return"
    /\ global_model' = agg_result
    /\ aggregated_rounds' = Append(aggregated_rounds, server_round)
    /\ pc' = "round"
    /\ LeaveAggregate
    /\ UNCHANGED <<num_rounds, server_round, node_ids, messages, replies,
                   created_rounds, store>>
    /\ UNCHANGED notMain

\* The aggregation has raised IndexError: nothing in main catches it.
AggregateRaise ==
    /\ pc = "aggregate"
    /\ a_pc = "raised"
    /\ pc' = "raised"
    /\ UNCHANGED <<num_rounds, server_round, node_ids, messages, replies,
                   global_model, created_rounds, aggregated_rounds, store>>
    /\ UNCHANGED <<aggVars, notMain>>

NextAgg ==
    \/ AggCollect
    \/ AggInit
    \/ AggAdd
    \/ AggAverage

NextMain ==
    \/ StartRound
    \/ FinishRounds
    \/ ConstructMessages
    \/ SendAndReceiveCall
    \/ NodeReply
    \/ SendAndReceiveReturn
    \/ AggCollect
    \/ AggInit
    \/ AggAdd
    \/ AggAverage
    \/ AggregateReturn
    \/ AggregateRaise

(***************************************************************************)
(* Properties of the round loop and of the aggregation.                    *)
(***************************************************************************)
\* The int a string of decimal digits denotes.
DigitValue(c) == CHOOSE d \in 0..9 : Digits[d + 1] = c
RECURSIVE ParseInt(_)
ParseInt(str) ==
    IF Len(str) = 1 THEN DigitValue(str[1])
    ELSE 10 * ParseInt(SubSeq(str, 1, Len(str) - 1)) + DigitValue(str[Len(str)])

RECURSIVE SumOver(_, _)
SumOver(S, f) ==
    IF S = {} THEN 0
    ELSE LET x == CHOOSE y \in S : TRUE IN f[x] + SumOver(S \ {x}, f)

Outstanding == {t \in 1..Len(store) : store[t].status = "Pending"}

\* C4: the rounds whose tasks were created are 0, 1, 2, ... in this order and
\* fewer than num_rounds + 1; the tasks of a round are created only when every
\* earlier round has returned from send_and_receive and was aggregated; and all
\* outstanding tasks belong to one round, the last one created.
C4_RoundsOneAtATime ==
    /\ Len(created_rounds) <= num_rounds
    /\ \A k \in 1..Len(created_rounds) : created_rounds[k] = k - 1
    /\ Len(aggregated_rounds) <= Len(created_rounds)
    /\ Len(aggregated_rounds) >= Len(created_rounds) - 1
    /\ \A k \in 1..Len(aggregated_rounds) : aggregated_rounds[k] = created_rounds[k]
    /\ pc \in {"construct"} => Len(aggregated_rounds) = server_round
    /\ \A t \in Outstanding :
          /\ created_rounds # <<>>
          /\ store[t].round = created_rounds[Len(created_rounds)]
          /\ Len(aggregated_rounds) = Len(created_rounds) - 1

\* The tasks of the second round are outstanding, the first round is aggregated.
C4_Witness ==
    /\ pc = "wait"
    /\ created_rounds = <<0, 1>>
    /\ aggregated_rounds = <<0>>
    /\ Outstanding # {}

\* C5: whatever replies send_and_receive returns, the aggregation does not raise
\* and the round loop does not abort.
C5_AggregationNeverRaises == a_pc # "raised" /\ pc # "raised"

\* C6: the messages of round r are one per node id of the round's snapshot, in
\* the snapshot's order, each addressed to that node id and with the group_id
\* that reads r (so no other round's); no node id of the snapshot is skipped
\* or addressed twice.
C6_OneTaskPerSnapshotNode ==
    pc \in {"send", "wait", "aggregate"} =>
        /\ Len(messages) = Len(node_ids)
        /\ \A k \in 1..Len(messages) :
              /\ messages[k].dst_node_id = node_ids[k]
              /\ ParseInt(messages[k].group_id) = server_round
              /\ \A r \in 0..MaxRounds :
                    r # server_round => messages[k].group_id # Str(r)
        /\ \A a, b \in 1..Len(messages) :
              messages[a].dst_node_id = messages[b].dst_node_id => a = b

\* The messages of the second round, for a snapshot of two nodes that is not in
\* increasing order.
C6_Witness ==
    /\ pc = "send"
    /\ server_round = 1
    /\ Len(node_ids) >= 2
    /\ node_ids[1] > node_ids[2]
    /\ Len(messages) >= 2

NotErrored == {i \in 1..Len(agg_messages) : ~agg_messages[i].has_error}

\* C7: a reply with an error is never collected and is never added to the sum;
\* every reply without error is collected exactly once, and the divisor of the
\* returned average is the number of replies without error.
C7_ErroredRepliesLeftOut ==
    /\ \A k \in 1..Len(origin) : ~agg_messages[origin[k]].has_error
    /\ \A i \in 1..Len(agg_messages) : agg_messages[i].has_error => contrib[i] = 0
    /\ a_pc \in {"sum", "return"} =>
          \A i \in NotErrored : Cardinality({k \in 1..Len(origin) : origin[k] = i}) = 1
    /\ a_pc = "return" =>
          \A key \in Keys :
              /\ agg_result[key][2] = Cardinality(NotErrored)
              /\ agg_result[key][1] =
                    SumOver(NotErrored,
                            [i \in NotErrored |->
                                contrib[i] * agg_messages[i].content[key][1]])

\* The function has returned for a list with an errored reply and another.
C7_Witness ==
    /\ a_pc = "return"
    /\ NotErrored # {}
    /\ \E i \in 1..Len(agg_messages) : agg_messages[i].has_error

\* C8: the returned value of every key is the sum of the key's values over the
\* replies without error, each counted once, divided by their number.
C8_ReturnsAverage ==
    a_pc = "return" =>
        \A key \in Keys :
            RatEq(agg_result[key],
                  <<SumOver(NotErrored,
                            [i \in NotErrored |-> agg_messages[i].content[key][1]]),
                    Cardinality(NotErrored)>>)

(***************************************************************************)
(*                          The specifications                             *)
(***************************************************************************)
IdleMatrix ==
    /\ m_pc = "idle"
    /\ flwr_version = ""
    /\ ubuntu_base_images = <<>>
    /\ alpine_base_images = <<>>
    /\ cuda_base_images = <<>>
    /\ base_images = <<>>
    /\ binary_images = <<>>
    /\ bin_k = 1
    /\ bin_j = 1

IdleVce ==
    /\ v_pc = "idle"
    /\ num_supernodes = 0
    /\ reg_i = 0
    /\ created = <<>>
    /\ nodes_mapping = <<>>
    /\ node_states = <<>>
    /\ states_k = 1
    /\ obj_count = 0

\* The build matrix script.
InitMatrix == InitMatrixVars /\ IdleVce /\ store = <<>> /\ IdleMain /\ IdleAgg
SpecMatrix == InitMatrix /\ [][NextMatrix]_vars

\* start_vce, with a coordinator that creates tasks.
InitVce == InitVceVars /\ IdleMatrix /\ store = <<>> /\ IdleMain /\ IdleAgg
SpecVce == InitVce /\ [][NextVce]_vars
\* start_vce runs on while it has a step to take.
FairVce == SpecVce /\ WF_vars(NextVce)

\* The coordinator's round loop, with participants that answer or do not.
InitMain == InitMainVars /\ IdleAgg /\ IdleMatrix /\ IdleVce /\ store = <<>>
SpecMain == InitMain /\ [][NextMain]_vars

\* aggregate_parameters_from_messages on every list of at most MaxReplies replies.
AggInputs == UNION {[1..n -> AllReplies] : n \in 0..MaxReplies}
InitAgg ==
    /\ \E msgs \in AggInputs : InitAggVars(msgs)
    /\ IdleMain /\ IdleMatrix /\ IdleVce /\ store = <<>>
SpecAgg == InitAgg /\ [][NextAgg]_vars
=============================================================================
